---- MODULE Spec2Model ----
(***************************************************************************)
(* Hand gesture -> PowerPoint controller (src/gesture_final_code.py).      *)
(*                                                                         *)
(* The model follows the per-frame loop of the script and the methods of   *)
(* PPTController.  Units:                                                  *)
(*   - the clock (time.time()) counts tenths of a second;                  *)
(*   - hand_size and pinch_dist are whole pixels, zoom_base is kept in     *)
(*     hundredths of a pixel, so that hand_size * 0.99 and hand_size * 1.01*)
(*     are exact and hand_size / zoom_base is compared by cross            *)
(*     multiplication;                                                     *)
(*   - Python's None is the number None (-1); every distance, position and *)
(*     time of the program is >= 0.                                        *)
(***************************************************************************)
EXTENDS Integers, Sequences, FiniteSets, TLC

\* ---------------------------------------------------------------- constants
ZOOM_SENSITIVITY == 5     \* 0.05, in hundredths
SWIPE_THRESHOLD == 60     \* pixels
SWIPE_COOLDOWN == 15      \* 1.5 s, in tenths of a second
PINCH_THRESHOLD == 40     \* the literal of "elif pinch_dist < 40"
ZOOM_IN_REBASE == 99      \* hand_size * 0.99, in hundredths
ZOOM_OUT_REBASE == 101    \* hand_size * 1.01, in hundredths
ZOOM_MIN == 10            \* max(10, current - 5)
ZOOM_MAX == 400           \* min(400, current + 5)
ZOOM_STEP == 5            \* current + 5, current - 5
None == -1

\* ------------------------------------------------------------------- bounds
NumSlides == 3            \* slides of the active presentation
ClockStep == 5            \* the clock is observed every 0.5 s
MaxElapsed == 25          \* the clock runs for 2.5 s after start-up

\* time.time() is seconds since the epoch: far more than SWIPE_COOLDOWN after
\* the last_slide_time = 0 of __init__.
StartClock == SWIPE_COOLDOWN + ClockStep
MaxClock == StartClock + MaxElapsed

\* ------------------------------------------------------------- frame inputs
\* get_dist(lm[4], lm[8], w, h): a non-negative distance.
PinchDists == {0, 39, 40}
\* get_dist(lm[0], lm[9], w, h): a non-negative distance.
HandSizes == {0, 94, 95, 100, 105, 106}
\* lm[8].x * w
IndexXs == {0, 60, 121}
\* view.Zoom when the script starts, and the level ZoomToFit chooses: percent
\* in ZOOM_MIN..ZOOM_MAX, near either end and off the grid of ZOOM_STEP.
StartZooms == {ZOOM_MIN + ZOOM_STEP, ZOOM_MAX - 2}

VARIABLES
    zoom_base,        \* state['zoom_base'], hundredths of a pixel, or None
    swipe_anchor,     \* state['swipe_anchor'], pixels, or None
    status_text,      \* state['status_text']
    last_slide_time,  \* ppt.last_slide_time
    app,              \* ppt.app is a PowerPoint application (TRUE) or None (FALSE)
    HAS_PYAUTOGUI,    \* the import of pyautogui succeeded
    now,              \* time.time()
    slide,            \* the slide the presentation shows (1-based)
    gesture,          \* the branch the last frame took
    calls,            \* what the last frame called, in order
    crashed,          \* the loop ended with an uncaught exception
    frame_parity,     \* number of frames processed, modulo 2
    last_permit,      \* time of the last attempt whose outcome was not "Cooldown"
    reported,         \* <<total, current>> the last frame's next_slide read, or <<>>
    seen_hand_size,   \* hand_size of the last frame if it took the PINCH branch
    seen_x,           \* current_x of the last frame if it took the POINTER branch
    seen_features,    \* <<index_up, middle_up, ring_up, pinky_up, pinch_dist>> of
                      \* the last frame, where the model keeps them, or <<>>
    slideshow,        \* app.SlideShowWindows.Count > 0
    view_zoom         \* app.ActiveWindow.View.Zoom, percent

vars == <<zoom_base, swipe_anchor, status_text, last_slide_time, app,
          HAS_PYAUTOGUI, now, slide, gesture, calls, crashed, frame_parity,
          last_permit, reported, seen_hand_size, seen_x, seen_features,
          slideshow, view_zoom>>

\* ------------------------------------------------------------ PPTController
\* What one attempt finds of the backend: TRUE = the access raises.
Failures ==
    IF app THEN [count : BOOLEAN, index : BOOLEAN, nav : BOOLEAN]
    ELSE {[count |-> TRUE, index |-> TRUE, nav |-> TRUE]}

\* _can_trigger without line 48: the time of the trigger is not recorded.
can_trigger_no_record ==
    [ok |-> now - last_slide_time > SWIPE_COOLDOWN,
     last_slide_time |-> last_slide_time]

\* _can_trigger with line 48 moved above the test: a rejected attempt records
\* its time too.
can_trigger_always_record ==
    [ok |-> now - last_slide_time > SWIPE_COOLDOWN, last_slide_time |-> now]

\* _can_trigger: the verdict and the new last_slide_time.  Its two reads of
\* time.time() (lines 47 and 48) follow each other directly and are one
\* reading of the clock, now.
can_trigger ==
    IF now - last_slide_time > SWIPE_COOLDOWN
    THEN [ok |-> TRUE, last_slide_time |-> now]
    ELSE [ok |-> FALSE, last_slide_time |-> last_slide_time]

get_slide_count(fl) == IF fl.count THEN 0 ELSE NumSlides

get_current_slide_index(fl) == IF fl.index THEN 1 ELSE slide

\* View.Next() / View.Previous() of the backend, and the arrow keys when they
\* reach the presentation.
Advance(s) == IF s < NumSlides THEN s + 1 ELSE s
Retreat(s) == IF s > 1 THEN s - 1 ELSE s

\* "if current >= total and total > 0" with > for >=.
AtEnd_strict(current, total) == current > total /\ total > 0

\* if current >= total and total > 0: "End of Slides"
AtEnd(current, total) == current >= total /\ total > 0

\* "if current <= 1" with < for <=.
AtStart_strict(current) == current < 1

\* if current <= 1: "Start of Slides"
AtStart(current) == current <= 1

\* next_slide with the boundary check made before _can_trigger: a rejected
\* attempt at the last slide does not record its time.
next_slide_check_first(fl, key_lands) ==
    LET total == get_slide_count(fl)
        current == get_current_slide_index(fl)
        queried == <<"next_slide", "get_slide_count", "get_current_slide_index">>
        ct == can_trigger
    IN
    IF AtEnd(current, total)
    THEN [res |-> "End of Slides", last_slide_time |-> last_slide_time,
          slide |-> slide, calls |-> queried, reported |-> <<total, current>>]
    ELSE IF ~ct.ok
    THEN [res |-> "Cooldown", last_slide_time |-> ct.last_slide_time,
          slide |-> slide, calls |-> <<"next_slide">>, reported |-> <<>>]
    ELSE IF ~fl.nav
    THEN [res |-> "Next Slide >", last_slide_time |-> ct.last_slide_time,
          slide |-> Advance(slide), calls |-> Append(queried, "View.Next"),
          reported |-> <<total, current>>]
    ELSE [res |-> "Key: Right", last_slide_time |-> ct.last_slide_time,
          slide |-> IF HAS_PYAUTOGUI /\ key_lands THEN Advance(slide) ELSE slide,
          calls |-> IF HAS_PYAUTOGUI THEN Append(queried, "press right")
                    ELSE queried,
          reported |-> <<total, current>>]

\* next_slide: outcome, new last_slide_time, new slide, calls made, and the
\* <<total, current>> it read.
next_slide(fl, key_lands) ==
    LET ct == can_trigger IN
    IF ~ct.ok
    THEN [res |-> "Cooldown", last_slide_time |-> ct.last_slide_time,
          slide |-> slide, calls |-> <<"next_slide">>, reported |-> <<>>]
    ELSE
      LET total == get_slide_count(fl)
          current == get_current_slide_index(fl)
          queried == <<"next_slide", "get_slide_count", "get_current_slide_index">>
      IN
      IF AtEnd(current, total)
      THEN [res |-> "End of Slides", last_slide_time |-> ct.last_slide_time,
            slide |-> slide, calls |-> queried, reported |-> <<total, current>>]
      ELSE IF ~fl.nav
      THEN [res |-> "Next Slide >", last_slide_time |-> ct.last_slide_time,
            slide |-> Advance(slide), calls |-> Append(queried, "View.Next"),
            reported |-> <<total, current>>]
      ELSE [res |-> "Key: Right", last_slide_time |-> ct.last_slide_time,
            slide |-> IF HAS_PYAUTOGUI /\ key_lands THEN Advance(slide) ELSE slide,
            calls |-> IF HAS_PYAUTOGUI THEN Append(queried, "press right")
                      ELSE queried,
            reported |-> <<total, current>>]

\* prev_slide: outcome, new last_slide_time, new slide, calls made.
prev_slide(fl, key_lands) ==
    LET ct == can_trigger IN
    IF ~ct.ok
    THEN [res |-> "Cooldown", last_slide_time |-> ct.last_slide_time,
          slide |-> slide, calls |-> <<"prev_slide">>, reported |-> <<>>]
    ELSE
      LET current == get_current_slide_index(fl)
          queried == <<"prev_slide", "get_current_slide_index">>
      IN
      IF AtStart(current)
      THEN [res |-> "Start of Slides", last_slide_time |-> ct.last_slide_time,
            slide |-> slide, calls |-> queried, reported |-> <<>>]
      ELSE IF ~fl.nav
      THEN [res |-> "< Prev Slide", last_slide_time |-> ct.last_slide_time,
            slide |-> Retreat(slide), calls |-> Append(queried, "View.Previous"),
            reported |-> <<>>]
      ELSE [res |-> "Key: Left", last_slide_time |-> ct.last_slide_time,
            slide |-> IF HAS_PYAUTOGUI /\ key_lands THEN Retreat(slide) ELSE slide,
            calls |-> IF HAS_PYAUTOGUI THEN Append(queried, "press left")
                      ELSE queried,
            reported |-> <<>>]

\* What a zoom or reset_zoom call finds of the backend: TRUE = it raises.
ZoomFailures == IF app THEN BOOLEAN ELSE {TRUE}

\* zoom without min / max: the level is not clamped.
zoom_unclamped(direction, fails) ==
    IF ~fails /\ ~slideshow
    THEN IF direction = "in" THEN view_zoom + ZOOM_STEP ELSE view_zoom - ZOOM_STEP
    ELSE view_zoom

\* zoom(direction): the new view.Zoom.
zoom(direction, fails) ==
    IF ~fails /\ ~slideshow
    THEN IF direction = "in"
         THEN IF view_zoom + ZOOM_STEP < ZOOM_MAX THEN view_zoom + ZOOM_STEP
              ELSE ZOOM_MAX
         ELSE IF view_zoom - ZOOM_STEP > ZOOM_MIN THEN view_zoom - ZOOM_STEP
              ELSE ZOOM_MIN
    ELSE view_zoom

\* reset_zoom: the new view.Zoom, fit the level ZoomToFit = True chooses.
reset_zoom(fit, fails) ==
    IF ~fails /\ ~slideshow THEN fit ELSE view_zoom

\* ---------------------------------------------------------------- main loop
\* The script starts while a slide show runs on some slide; view.Zoom is not
\* touched while it runs.
Init ==
    /\ zoom_base = None
    /\ swipe_anchor = None
    /\ status_text = "Ready"
    /\ last_slide_time = 0
    /\ app \in BOOLEAN
    /\ HAS_PYAUTOGUI \in BOOLEAN
    /\ now = StartClock
    /\ slide \in 1..NumSlides
    /\ gesture = "NoHand"
    /\ calls = <<>>
    /\ crashed = FALSE
    /\ frame_parity = 0
    /\ last_permit = None
    /\ reported = <<>>
    /\ seen_hand_size = None
    /\ seen_x = None
    /\ seen_features = <<>>
    /\ slideshow = TRUE
    /\ view_zoom = ZOOM_MIN + ZOOM_STEP

\* The pass without a hand with "state['status_text'] = ''" beside
\* "active_gesture = 'None'": the status is cleared every frame.
NoHand_clears_status ==
    /\ gesture' = "NoHand"
    /\ calls' = <<>>
    /\ reported' = <<>>
    /\ seen_hand_size' = None
    /\ seen_x' = None
    /\ status_text' = ""
    /\ UNCHANGED <<zoom_base, swipe_anchor, last_slide_time,
                   slide, crashed, last_permit, view_zoom>>

\* "if results.multi_hand_landmarks:" is false: the body is skipped.
NoHand ==
    /\ gesture' = "NoHand"
    /\ calls' = <<>>
    /\ reported' = <<>>
    /\ seen_hand_size' = None
    /\ seen_x' = None
    /\ UNCHANGED <<zoom_base, swipe_anchor, status_text, last_slide_time,
                   slide, crashed, last_permit, view_zoom>>

\* The FIST branch with reset_zoom called only while a pinch is tracked.
Fist_reset_if_tracking ==
    /\ gesture' = "FIST"
    /\ calls' = IF zoom_base # None THEN <<"reset_zoom">> ELSE <<>>
    /\ \E fit \in StartZooms, fails \in ZoomFailures :
          view_zoom' = IF zoom_base # None THEN reset_zoom(fit, fails) ELSE view_zoom
    /\ reported' = <<>>
    /\ seen_hand_size' = None
    /\ seen_x' = None
    /\ zoom_base' = None
    /\ swipe_anchor' = None
    /\ UNCHANGED <<status_text, last_slide_time, slide, crashed, last_permit>>

\* A. FIST (RESET)
Fist ==
    /\ gesture' = "FIST"
    /\ calls' = <<"reset_zoom">>
    /\ \E fit \in StartZooms, fails \in ZoomFailures :
          view_zoom' = reset_zoom(fit, fails)
    /\ reported' = <<>>
    /\ seen_hand_size' = None
    /\ seen_x' = None
    /\ zoom_base' = None
    /\ swipe_anchor' = None
    /\ UNCHANGED <<status_text, last_slide_time, slide, crashed, last_permit>>

\* "ratio > (1 + ZOOM_SENSITIVITY)" without the sensitivity: ratio > 1.
RatioAbove_no_margin(hand_size, base) == hand_size * 10000 > 100 * base

\* "ratio < (1 - ZOOM_SENSITIVITY)" with <= for <.
RatioBelow_inclusive(hand_size, base) ==
    hand_size * 10000 <= (100 - ZOOM_SENSITIVITY) * base

\* ratio > 1 + ZOOM_SENSITIVITY and ratio < 1 - ZOOM_SENSITIVITY, for
\* ratio = hand_size / base, base > 0 in hundredths.
RatioAbove(hand_size, base) == hand_size * 10000 > (100 + ZOOM_SENSITIVITY) * base
RatioBelow(hand_size, base) == hand_size * 10000 < (100 - ZOOM_SENSITIVITY) * base

\* "state['swipe_anchor'] = None # Cancel swipe", without the assignment.
CancelSwipe_missing == UNCHANGED swipe_anchor

\* state['swipe_anchor'] = None # Cancel swipe
CancelSwipe == swipe_anchor' = None

\* "state['zoom_base'] = None # Cancel zoom", without the assignment.
CancelZoom_missing == UNCHANGED zoom_base

\* state['zoom_base'] = None # Cancel zoom
CancelZoom == zoom_base' = None

\* "ppt.zoom(direction)" behind the debouncer: the call is made only when
\* _can_trigger permits it, and records its time.
ZoomCall_debounced(direction) ==
    /\ calls' = IF can_trigger.ok THEN <<"zoom " \o direction>> ELSE <<>>
    /\ last_slide_time' = can_trigger.last_slide_time
    /\ \E fails \in ZoomFailures :
          view_zoom' = IF can_trigger.ok THEN zoom(direction, fails) ELSE view_zoom

\* ppt.zoom(direction)
ZoomCall(direction) ==
    /\ calls' = <<"zoom " \o direction>>
    /\ UNCHANGED last_slide_time
    /\ \E fails \in ZoomFailures : view_zoom' = zoom(direction, fails)

\* B. PINCH (ZOOM)
Pinch(hand_size) ==
    /\ gesture' = "PINCH"
    /\ reported' = <<>>
    /\ seen_hand_size' = hand_size
    /\ seen_x' = None
    /\ CancelSwipe
    /\ UNCHANGED <<slide, last_permit>>
    /\ IF zoom_base = None
       THEN /\ zoom_base' = hand_size * 100
            /\ calls' = <<>>
            /\ UNCHANGED <<status_text, crashed, last_slide_time, view_zoom>>
       ELSE IF zoom_base = 0
       THEN \* hand_size / 0.0: ZeroDivisionError
            /\ crashed' = TRUE
            /\ calls' = <<>>
            /\ UNCHANGED <<zoom_base, status_text, last_slide_time, view_zoom>>
       ELSE IF RatioAbove(hand_size, zoom_base)
       THEN /\ ZoomCall("in")
            /\ status_text' = "Zooming In"
            /\ zoom_base' = hand_size * ZOOM_IN_REBASE
            /\ UNCHANGED crashed
       ELSE IF RatioBelow(hand_size, zoom_base)
       THEN /\ ZoomCall("out")
            /\ status_text' = "Zooming Out"
            /\ zoom_base' = hand_size * ZOOM_OUT_REBASE
            /\ UNCHANGED crashed
       ELSE /\ calls' = <<>>
            /\ UNCHANGED <<zoom_base, status_text, crashed, last_slide_time,
                           view_zoom>>

\* The trigger with next_slide / prev_slide called a second time for the
\* status ("if ppt.next_slide(): state['status_text'] = ppt.next_slide()").
Trigger_called_twice(r) ==
    /\ status_text' = "Cooldown"
    /\ swipe_anchor' = None
    /\ last_slide_time' = r.last_slide_time
    /\ slide' = r.slide
    /\ calls' = r.calls \o <<r.calls[1]>>
    /\ reported' = r.reported
    /\ last_permit' = IF r.res = "Cooldown" THEN last_permit ELSE now

\* The trigger without "state['swipe_anchor'] = None # Reset anchor".
Trigger_keeps_anchor(r) ==
    /\ status_text' = r.res
    /\ UNCHANGED swipe_anchor
    /\ last_slide_time' = r.last_slide_time
    /\ slide' = r.slide
    /\ calls' = r.calls
    /\ reported' = r.reported
    /\ last_permit' = IF r.res = "Cooldown" THEN last_permit ELSE now

\* The effect of "res = ppt.next_slide()" / "res = ppt.prev_slide()" and the
\* two assignments after it.
Trigger(r) ==
    /\ status_text' = r.res
    /\ swipe_anchor' = None
    /\ last_slide_time' = r.last_slide_time
    /\ slide' = r.slide
    /\ calls' = r.calls
    /\ reported' = r.reported
    /\ last_permit' = IF r.res = "Cooldown" THEN last_permit ELSE now

\* C. POINTER (SWIPE)
Pointer(current_x) ==
    /\ gesture' = "POINTER"
    /\ seen_hand_size' = None
    /\ seen_x' = current_x
    /\ CancelZoom
    /\ UNCHANGED <<crashed, view_zoom>>
    /\ IF swipe_anchor = None
       THEN /\ swipe_anchor' = current_x
            /\ calls' = <<>>
            /\ reported' = <<>>
            /\ UNCHANGED <<status_text, last_slide_time, slide, last_permit>>
       ELSE LET diff == current_x - swipe_anchor IN
            IF diff > SWIPE_THRESHOLD
            THEN \E fl \in Failures, key_lands \in BOOLEAN :
                    Trigger(next_slide(fl, key_lands))
            ELSE IF diff < -SWIPE_THRESHOLD
            THEN \E fl \in Failures, key_lands \in BOOLEAN :
                    Trigger(prev_slide(fl, key_lands))
            ELSE /\ calls' = <<>>
                 /\ reported' = <<>>
                 /\ UNCHANGED <<swipe_anchor, status_text, last_slide_time,
                                slide, last_permit>>

\* else: Neutral
Neutral ==
    /\ gesture' = "NEUTRAL"
    /\ calls' = <<>>
    /\ reported' = <<>>
    /\ seen_hand_size' = None
    /\ seen_x' = None
    /\ zoom_base' = None
    /\ swipe_anchor' = None
    /\ UNCHANGED <<status_text, last_slide_time, slide, crashed, last_permit,
                   view_zoom>>

BoolToInt(b) == IF b THEN 1 ELSE 0

\* "if fingers_count == 0" tested after "pinch_dist < 40": PINCH takes
\* priority over FIST.
Classify_pinch_first(index_up, middle_up, ring_up, pinky_up, pinch_dist) ==
    LET fingers_count == BoolToInt(index_up) + BoolToInt(middle_up)
                         + BoolToInt(ring_up) + BoolToInt(pinky_up)
    IN
    IF pinch_dist < PINCH_THRESHOLD THEN "PINCH"
    ELSE IF fingers_count = 0 THEN "FIST"
    ELSE IF fingers_count <= 2 /\ index_up THEN "POINTER"
    ELSE "NEUTRAL"

\* The conditions of the if / elif chain of the logic tree, in order.
Classify(index_up, middle_up, ring_up, pinky_up, pinch_dist) ==
    LET fingers_count == BoolToInt(index_up) + BoolToInt(middle_up)
                         + BoolToInt(ring_up) + BoolToInt(pinky_up)
    IN
    IF fingers_count = 0 THEN "FIST"
    ELSE IF pinch_dist < PINCH_THRESHOLD THEN "PINCH"
    ELSE IF fingers_count <= 2 /\ index_up THEN "POINTER"
    ELSE "NEUTRAL"

\* The branches some detected hand takes: every finger state, every pinch_dist.
Categories ==
    {Classify(f[1], f[2], f[3], f[4], pinch_dist) :
        f \in BOOLEAN \X BOOLEAN \X BOOLEAN \X BOOLEAN, pinch_dist \in PinchDists}

\* The body of the branch of the logic tree that one detected hand takes.
Hand(category) ==
    IF category = "FIST" THEN Fist
    ELSE IF category = "PINCH"
    THEN \E hand_size \in HandSizes : Pinch(hand_size)
    ELSE IF category = "POINTER"
    THEN \E current_x \in IndexXs : Pointer(current_x)
    ELSE Neutral

\* One pass of the while loop with no hand in the frame.
NoHandFrame ==
    /\ ~crashed
    /\ frame_parity' = 1 - frame_parity
    /\ UNCHANGED <<app, HAS_PYAUTOGUI, now, slideshow, seen_features>>
    /\ NoHand

\* One pass of the while loop with a hand in the frame (max_num_hands = 1).
HandFrame ==
    /\ ~crashed
    /\ frame_parity' = 1 - frame_parity
    /\ UNCHANGED <<app, HAS_PYAUTOGUI, now, slideshow, seen_features>>
    /\ \E category \in Categories : Hand(category)

\* Time passes between two passes of the loop.
Tick ==
    /\ now + ClockStep <= MaxClock
    /\ now' = now + ClockStep
    /\ UNCHANGED <<zoom_base, swipe_anchor, status_text, last_slide_time, app,
                   HAS_PYAUTOGUI, slide, gesture, calls, crashed, frame_parity,
                   last_permit, reported, seen_hand_size, seen_x, seen_features,
                   slideshow, view_zoom>>

Next == NoHandFrame \/ HandFrame \/ Tick

Spec == Init /\ [][Next]_vars

\* --------------------------------------------- the classifier, features kept
\* The script starts with PowerPoint connected and pyautogui at hand, in a
\* slide show on the first slide.
InitClassify == Init /\ app /\ HAS_PYAUTOGUI /\ slide = 1

\* One pass of the while loop with a hand in the frame, the features of the
\* hand kept in seen_features.
FeatureFrame ==
    /\ ~crashed
    /\ frame_parity' = 1 - frame_parity
    /\ UNCHANGED <<app, HAS_PYAUTOGUI, now, slideshow>>
    /\ \E index_up, middle_up, ring_up, pinky_up \in BOOLEAN,
          pinch_dist \in PinchDists :
          /\ seen_features' = <<index_up, middle_up, ring_up, pinky_up, pinch_dist>>
          /\ Hand(Classify(index_up, middle_up, ring_up, pinky_up, pinch_dist))

NextClassify == FeatureFrame

SpecClassify == InitClassify /\ [][NextClassify]_vars

\* ------------------------------------------------- zooming, outside a show
\* The script starts with PowerPoint connected, in a slide show or in the
\* editing window at some zoom level.
InitZoom ==
    /\ zoom_base = None
    /\ swipe_anchor = None
    /\ status_text = "Ready"
    /\ last_slide_time = 0
    /\ app = TRUE
    /\ HAS_PYAUTOGUI = TRUE
    /\ now = StartClock
    /\ slide = 1
    /\ gesture = "NoHand"
    /\ calls = <<>>
    /\ crashed = FALSE
    /\ frame_parity = 0
    /\ last_permit = None
    /\ reported = <<>>
    /\ seen_hand_size = None
    /\ seen_x = None
    /\ seen_features = <<>>
    /\ slideshow \in BOOLEAN
    /\ view_zoom \in StartZooms

\* One pass of the while loop with a hand in the frame that does not point.
ZoomFrame ==
    /\ ~crashed
    /\ frame_parity' = 1 - frame_parity
    /\ UNCHANGED <<app, HAS_PYAUTOGUI, now, slideshow, seen_features>>
    /\ \E category \in Categories \ {"POINTER"} : Hand(category)

NextZoom == ZoomFrame \/ NoHandFrame

SpecZoom == InitZoom /\ [][NextZoom]_vars

\* ------------------------------------------------------------------ claims
\* A step that is one pass of the loop.
FrameStep == frame_parity' # frame_parity

\* A pass of the loop that called next_slide or prev_slide.
AttemptStep ==
    /\ FrameStep
    /\ calls' # <<>>
    /\ calls'[1] \in {"next_slide", "prev_slide"}

\* The last pass of the loop called next_slide or prev_slide.
Attempted == calls # <<>> /\ calls[1] \in {"next_slide", "prev_slide"}

\* C1: an attempt (next_slide or prev_slide, which share last_slide_time) is
\* permitted iff more than SWIPE_COOLDOWN has elapsed since the last permitted
\* attempt (or there was none), and its outcome is "Cooldown" otherwise; so
\* two permitted attempts are more than the cooldown apart.
C1_CooldownGate ==
    [][AttemptStep =>
        /\ (status_text' = "Cooldown") <=>
              (last_permit # None /\ now - last_permit <= SWIPE_COOLDOWN)
        /\ (status_text' # "Cooldown" /\ last_permit # None) =>
              now - last_permit > SWIPE_COOLDOWN]_vars

\* C1 witness: a rightward swipe 0.5 s after a permitted attempt got "Cooldown".
C1_Witness ==
    /\ calls = <<"next_slide">>
    /\ status_text = "Cooldown"
    /\ last_permit # None
    /\ now - last_permit = 5

\* Whether the sequence of calls cs holds the call c.
Called(c, cs) == \E i \in 1..Len(cs) : cs[i] = c

\* A pass of the loop that invoked the backend's advance (View.Next()) or
\* pressed the right arrow, and one that invoked retreat or pressed the left.
Advanced == Called("View.Next", calls') \/ Called("press right", calls')
Retreated == Called("View.Previous", calls') \/ Called("press left", calls')

C3_NoHandClears ==
    gesture = "NoHand" =>
        /\ zoom_base = None
        /\ swipe_anchor = None
        /\ calls = <<>>

\* C4: with the backend unavailable (ppt.app is None, every call fails) and
\* simulated key input at hand, an attempt the cooldown permits presses the
\* arrow key of its direction: "Key: Right" for next_slide, "Key: Left" for
\* prev_slide.
C4_KeyFallback ==
    [][(AttemptStep /\ ~app /\ HAS_PYAUTOGUI /\ status_text' # "Cooldown") =>
        /\ calls'[1] = "next_slide" =>
              (status_text' = "Key: Right" /\ Called("press right", calls'))
        /\ calls'[1] = "prev_slide" =>
              (status_text' = "Key: Left" /\ Called("press left", calls'))]_vars

\* The outcomes of an attempt the boundary check rejects.
BoundaryOutcomes == {"End of Slides", "Start of Slides"}

\* C5: an attempt that the boundary check rejects has set last_slide_time to
\* the time of the attempt, and an attempt made within SWIPE_COOLDOWN of a
\* boundary-rejected one (whose outcome status_text still shows) gets
\* "Cooldown".
C5_RejectedConsumesCooldown ==
    [][AttemptStep =>
        /\ status_text' \in BoundaryOutcomes => last_slide_time' = now
        /\ (status_text \in BoundaryOutcomes /\ now - last_permit <= SWIPE_COOLDOWN)
              => status_text' = "Cooldown"]_vars

\* C5 witness: the boundary check has just rejected an attempt, and the time
\* of that attempt is recorded.
C5_Witness ==
    /\ Attempted
    /\ status_text = "End of Slides"
    /\ last_slide_time = now
    /\ last_permit = now

\* C6: a rightward swipe for which the backend reports current >= total > 0
\* makes no View.Next() call and no right-arrow press, and its outcome is
\* "End of Slides"; one the cooldown rejects makes neither call either.
C6_EndOfSlides ==
    [][(AttemptStep /\ calls'[1] = "next_slide") =>
        /\ status_text' = "Cooldown" => ~Advanced
        /\ (reported' # <<>> /\ reported'[2] >= reported'[1] /\ reported'[1] > 0) =>
              /\ status_text' = "End of Slides"
              /\ ~Advanced
              /\ slide' = slide]_vars

\* C6 witness: on the last slide, with both queries answered, a rightward
\* swipe ended "End of Slides".
C6_Witness ==
    /\ reported = <<NumSlides, NumSlides>>
    /\ calls = <<"next_slide", "get_slide_count", "get_current_slide_index">>
    /\ status_text = "End of Slides"
    /\ slide = NumSlides

\* C7: an attempt the cooldown rejects returns "Cooldown" after the call of
\* next_slide / prev_slide alone: no query, no navigation, no key press, and
\* last_slide_time as it was.
C7_CooldownNoEffect ==
    [][(AttemptStep /\ status_text' = "Cooldown") =>
        /\ Len(calls') = 1
        /\ last_slide_time' = last_slide_time
        /\ slide' = slide
        /\ last_permit' = last_permit]_vars

\* C7 witness: a leftward swipe was rejected by the cooldown 1 s after the
\* recorded trigger time.
C7_Witness ==
    /\ calls = <<"prev_slide">>
    /\ status_text = "Cooldown"
    /\ now - last_slide_time = 10

\* C8: at most one of zoom_base and swipe_anchor is set.
C8_OneReference == zoom_base = None \/ swipe_anchor = None

\* C8 witness: a PINCH frame that zoomed out holds a zoom_base and no
\* swipe_anchor.
C8_Witness ==
    /\ gesture = "PINCH"
    /\ zoom_base # None
    /\ swipe_anchor = None
    /\ calls = <<"zoom out">>

\* A pass of the loop that took the PINCH branch right after a pass that
\* zoomed in, with the same hand_size.
SameSizeAfterZoomIn ==
    /\ FrameStep
    /\ calls = <<"zoom in">>
    /\ gesture' = "PINCH"
    /\ seen_hand_size' = seen_hand_size

\* C9 as stated: a PINCH frame that zooms in leaves zoom_base = 0.99 x
\* hand_size, and a PINCH frame that follows it with the same hand_size zooms
\* in again.
C9_RezoomsAtSameSize ==
    [][/\ (FrameStep /\ calls' = <<"zoom in">>) =>
              zoom_base' = 99 * seen_hand_size'
       /\ SameSizeAfterZoomIn => calls' = <<"zoom in">>]_vars

\* C9 amended: a PINCH frame that zooms in leaves zoom_base = 0.99 x
\* hand_size, and a PINCH frame that follows it with the same hand_size is in
\* the dead zone (1/0.99 <= 1 + ZOOM_SENSITIVITY): it calls nothing and leaves
\* zoom_base and status_text as they were.
C9_DeadZoneAtSameSize ==
    [][/\ (FrameStep /\ calls' = <<"zoom in">>) =>
              zoom_base' = 99 * seen_hand_size'
       /\ SameSizeAfterZoomIn =>
              /\ calls' = <<>>
              /\ zoom_base' = zoom_base
              /\ status_text' = status_text
              /\ ~crashed']_vars

\* C9 witness: a PINCH frame in the dead zone whose zoom_base is 0.99 x its
\* own hand_size, as the zoom-in before it left it.
C9_Witness ==
    /\ gesture = "PINCH"
    /\ calls = <<>>
    /\ seen_hand_size > 0
    /\ zoom_base = 99 * seen_hand_size
    /\ status_text = "Zooming In"

\* C10: no frame raises; hand_size / zoom_base is never evaluated with
\* zoom_base = 0.
C10_NoFatal == ~crashed

\* The calls of a frame that are commands to the presentation backend.
Commands == {"next_slide", "prev_slide", "zoom in", "zoom out", "reset_zoom"}
CommandCount(cs) == Cardinality({i \in 1..Len(cs) : cs[i] \in Commands})

\* C11: a pass of the loop makes at most one call among next_slide,
\* prev_slide, zoom and reset_zoom.
C11_OneCommand == CommandCount(calls) <= 1

\* C11 witness: a pass whose one command was next_slide, which advanced.
C11_Witness ==
    /\ CommandCount(calls) = 1
    /\ Called("View.Next", calls)
    /\ status_text = "Next Slide >"

\* C12: the category of a hand follows the ordered list: FIST when no finger
\* is up, whatever the pinch distance; else PINCH when the pinch distance is
\* below 40; else POINTER when at most two fingers are up and the index is
\* one of them; else NEUTRAL.
C12_ClassifierOrder ==
    seen_features # <<>> =>
        LET up == {i \in 1..4 : seen_features[i]}
            pinch_dist == seen_features[5]
        IN
        /\ up = {} => gesture = "FIST"
        /\ (up # {} /\ pinch_dist < 40) => gesture = "PINCH"
        /\ (up # {} /\ pinch_dist >= 40 /\ Cardinality(up) <= 2 /\ 1 \in up) =>
              gesture = "POINTER"
        /\ (up # {} /\ pinch_dist >= 40 /\ ~(Cardinality(up) <= 2 /\ 1 \in up)) =>
              gesture = "NEUTRAL"

\* C12 witness: no finger up and thumb on index (pinch distance 0): FIST.
C12_Witness ==
    /\ seen_features = <<FALSE, FALSE, FALSE, FALSE, 0>>
    /\ gesture = "FIST"
    /\ calls = <<"reset_zoom">>

\* C13: an attempt leaves swipe_anchor absent whatever its outcome, so the
\* pass after an attempt makes none: if it takes the POINTER branch it only
\* sets the anchor to its current_x.
C13_AttemptClearsAnchor ==
    [][/\ AttemptStep => swipe_anchor' = None
       /\ (FrameStep /\ Attempted) =>
              /\ CommandCount(calls') = 0 \/ calls' = <<"reset_zoom">>
              /\ gesture' = "POINTER" =>
                    /\ calls' = <<>>
                    /\ swipe_anchor' = seen_x'
                    /\ status_text' = status_text]_vars

\* C13 witness: a leftward swipe that fell back to the left arrow left no
\* anchor.
C13_Witness ==
    /\ Attempted
    /\ status_text = "Key: Left"
    /\ swipe_anchor = None
    /\ gesture = "POINTER"

\* C14: a PINCH frame right after a hand frame of another category calls
\* nothing and sets zoom_base to its hand_size; a POINTER frame right after a
\* hand frame of another category calls nothing and sets swipe_anchor to its
\* current_x.
C14_FreshReference ==
    [][FrameStep =>
        /\ (gesture \in {"FIST", "POINTER", "NEUTRAL"} /\ gesture' = "PINCH") =>
              /\ calls' = <<>>
              /\ zoom_base' = 100 * seen_hand_size'
              /\ status_text' = status_text
              /\ ~crashed'
        /\ (gesture \in {"FIST", "PINCH", "NEUTRAL"} /\ gesture' = "POINTER") =>
              /\ calls' = <<>>
              /\ swipe_anchor' = seen_x'
              /\ status_text' = status_text]_vars

\* C14 witness: after a zoom-in (which leaves zoom_base = 0.99 x hand_size) the
\* category changed and a PINCH frame set zoom_base to its own hand_size anew.
C14_Witness ==
    /\ gesture = "PINCH"
    /\ calls = <<>>
    /\ seen_hand_size > 0
    /\ zoom_base = 100 * seen_hand_size
    /\ status_text = "Zooming In"

\* C15: a PINCH frame whose ratio hand_size / zoom_base leaves [0.95, 1.05]
\* calls zoom whatever the time since the last trigger, and leaves
\* last_slide_time as it was.
C15_ZoomNotDebounced ==
    [][(/\ FrameStep
        /\ gesture' = "PINCH"
        /\ zoom_base > 0
        /\ \/ seen_hand_size' * 10000 > 105 * zoom_base
           \/ seen_hand_size' * 10000 < 95 * zoom_base) =>
        /\ calls' \in {<<"zoom in">>, <<"zoom out">>}
        /\ status_text' \in {"Zooming In", "Zooming Out"}
        /\ last_slide_time' = last_slide_time
        /\ last_permit' = last_permit]_vars

\* C15 witness: a zoom call at the very time of the last permitted trigger.
C15_Witness ==
    /\ calls = <<"zoom out">>
    /\ last_permit = now
    /\ last_slide_time = now

\* The outcomes of zoom and of a trigger attempt.
Outcomes ==
    {"Zooming In", "Zooming Out", "Cooldown", "End of Slides", "Start of Slides",
     "Next Slide >", "< Prev Slide", "Key: Right", "Key: Left"}

\* A frame with these calls emitted a zoom or made a trigger attempt.
EmitsIntent(cs) ==
    \E i \in 1..Len(cs) : cs[i] \in {"next_slide", "prev_slide", "zoom in", "zoom out"}

\* C16: status_text is never empty; a pass changes it only to the outcome of
\* the zoom or trigger attempt it made, and a pass that makes neither leaves
\* it as it was.
C16_StatusKept ==
    [][/\ status_text # ""
       /\ status_text' # ""
       /\ (FrameStep /\ ~EmitsIntent(calls')) => status_text' = status_text
       /\ (FrameStep /\ EmitsIntent(calls')) => status_text' \in Outcomes]_vars

\* C16 witness: a NEUTRAL frame kept the outcome of an earlier attempt.
C16_Witness ==
    /\ gesture = "NEUTRAL"
    /\ calls = <<>>
    /\ status_text = "End of Slides"

\* C17: a FIST frame ends with zoom_base and swipe_anchor absent and has
\* called reset_zoom, whatever the state before it and the cooldown.
C17_FistResets ==
    gesture = "FIST" =>
        /\ zoom_base = None
        /\ swipe_anchor = None
        /\ calls = <<"reset_zoom">>

\* C17 witness: a FIST frame at the very time of a permitted trigger.
C17_Witness ==
    /\ gesture = "FIST"
    /\ calls = <<"reset_zoom">>
    /\ last_slide_time = now
    /\ zoom_base = None
    /\ swipe_anchor = None

\* C18: a PINCH frame with zoom_base set and 0.95 <= hand_size / zoom_base
\* <= 1.05 calls nothing and leaves zoom_base, swipe_anchor (absent),
\* status_text and last_slide_time as they were.
C18_DeadZone ==
    [][(/\ FrameStep
        /\ gesture' = "PINCH"
        /\ zoom_base > 0
        /\ seen_hand_size' * 10000 >= 95 * zoom_base
        /\ seen_hand_size' * 10000 <= 105 * zoom_base) =>
        /\ calls' = <<>>
        /\ zoom_base' = zoom_base
        /\ swipe_anchor = None
        /\ swipe_anchor' = None
        /\ status_text' = status_text
        /\ last_slide_time' = last_slide_time
        /\ ~crashed']_vars

\* C18 witness: a PINCH frame at ratio 0.95 exactly (hand_size 95 against a
\* zoom_base of 100) called nothing.
C18_Witness ==
    /\ gesture = "PINCH"
    /\ calls = <<>>
    /\ zoom_base = 10000
    /\ seen_hand_size = 95

\* C19: view.Zoom stays in 10..400; a zoom call changes it by at most 5; and
\* during a slide show no pass of the loop changes it.
C19_ZoomClamped ==
    [][FrameStep =>
        /\ view_zoom \in 10..400
        /\ view_zoom' \in 10..400
        /\ (calls' \in {<<"zoom in">>, <<"zoom out">>}) =>
              (view_zoom' - view_zoom \in -5..5)
        /\ slideshow => view_zoom' = view_zoom]_vars

\* C19 witness: outside a slide show a zoom-in stopped at 400.
C19_Witness ==
    /\ ~slideshow
    /\ calls = <<"zoom in">>
    /\ view_zoom = 400

====
